---- MODULE Spec2Model ----
(***************************************************************************)
(* Model of the camera control daemon src/host.py (Flask, threaded=True).  *)
(*                                                                         *)
(* Five specifications of the request handlers are built from one set of   *)
(* actions:                                                                *)
(*   SpecPipe   stream requests of any kind, run by concurrent Flask       *)
(*              worker threads;                                            *)
(*   SpecPower  power requests and well-formed start requests, run         *)
(*              concurrently;                                              *)
(*   SpecSeq    stream and power requests, one at a time;                  *)
(*   SpecServo  the motion, limit and init/config handlers and the OLED    *)
(*              thread, run concurrently on the servo bus;                 *)
(*   SpecCalib  the motion, limit and init/config handlers run by one      *)
(*              worker at a time, with a wider range of request values.    *)
(* Three more cover what runs outside the handlers:                        *)
(*   SpecLoad   the start-up from every state of the config file;          *)
(*   SpecOled   the display thread alone, with every temperature reading;  *)
(*   SpecTrip   the calibration mapping applied one way and back, in       *)
(*              Python float arithmetic.                                   *)
(* The two groups of handlers share no state except CAM_POWER, which the   *)
(* power handler and system_init both write and the power handler reads.   *)
(*                                                                         *)
(* Angles, bounds and calibration values are integers; the quotient of     *)
(* the mapping is an exact fraction in the handlers and a float in         *)
(* SpecTrip.  A call on a servo proxy is a transaction on the serial bus:  *)
(* it takes a step to enter and a step to return, and it returns normally  *)
(* or raises.                                                              *)
(***************************************************************************)
EXTENDS Integers, Sequences, FiniteSets, TLC

\* ------------------------------------------------------------------------
\* Bounds and input sets
\* ------------------------------------------------------------------------

\* Request threads that may run at the same time (app.run(threaded=True)).
Workers == {1, 2}

\* Number of gst processes a behaviour may spawn (caps the process table).
MaxProcs == 2

\* Number of motion, limit and init/config requests a behaviour may serve
\* when workers run concurrently, and when one worker runs at a time.
MaxRequests == 2

MaxCalibRequests == MaxRequests + 1

\* Protocol path segments a client may send: udp (the only transport whose
\* url is validated), hls (rtsp is handled the same way up to the launcher
\* name) and one unsupported name.
Protocols == {"udp", "hls", "ftp"}

\* URLs a client may send, as sequences of characters: a well-formed udp
\* target and the default empty url.
UrlGood == <<"u","d","p",":","/","/","1",".","2",":","9">>
UrlEmpty == <<>>
Urls == {UrlGood, UrlEmpty}

\* The None that PIPELINES.pop(protocol, None) returns for a missing key.
NoProc == 0
NoReq == [kind |-> "none"]

\* Stream requests.  Only the udp branch of _make_gst_pipeline reads the url,
\* and a request with on = false never reaches it, so the url varies for udp
\* starts only.
StreamRequests ==
    {[protocol |-> "udp", on |-> TRUE, url |-> u] : u \in Urls}
    \cup {[protocol |-> p, on |-> TRUE, url |-> UrlEmpty] : p \in Protocols \ {"udp"}}
    \cup {[protocol |-> p, on |-> FALSE, url |-> UrlEmpty] : p \in Protocols}

\* The start requests that pass validation.
ValidStartRequests ==
    {[protocol |-> p, on |-> TRUE, url |-> IF p = "udp" THEN UrlGood ELSE UrlEmpty] :
        p \in {"udp", "hls"}}

\* ------------------------------------------------------------------------
\* State
\* ------------------------------------------------------------------------
VARIABLES
    PIPELINES,   \* ordered dict protocol -> process: sequence of [k, v]
    procs,       \* process table: sequence of process records, index = id;
                 \* alive is the process's state, the other flags record
                 \* what the daemon did to it
    CAM_POWER,   \* level of the camera power GPIO
    HUB_POWER,   \* level of the hub power GPIO
    pc,          \* position of each worker in its handler
    req,         \* the request each worker is handling
    keys,        \* list(PIPELINES.keys()) snapshot being iterated
    proto,       \* argument of the running _stop_pipeline call
    cur,         \* the local variable proc of _stop_pipeline/_start_pipeline
    prev_on,     \* local prev_on of camera_power
    hist,        \* per-request history, for stating properties only
    track,       \* whether hist records the registry a request started from
    boot,        \* start-up phase: "load", "loaded", then "up" (serving)
    trip,        \* a calibration round trip: its inputs and what has been computed
    DEVICE_CONFIG,  \* the in-memory config dict; SERVO_LIMITS is the same
                    \* object as DEVICE_CONFIG["servo_limits"]
    CONFIG_FILE,    \* content of device_config.json
    attached,       \* SERVO_PAN / SERVO_TILT are proxies (TRUE) or None
    served,         \* number of motion / limit / init requests picked up
    servoAngle,     \* physical position of each servo
    servoLimits,    \* angle limits programmed into each servo
    SERVO_LOCK,     \* set of workers holding the servo lock (at most one)
    frame,          \* local variables and response of motion / motion_limit
    oled,           \* position of the OLED thread in its loop
    toggle,         \* local toggle of _update_oled
    screen          \* temperature readouts of the last two displayed images

pipeShared == <<PIPELINES, procs, CAM_POWER, HUB_POWER>>
locals == <<keys, proto, cur, prev_on>>
servoShared == <<DEVICE_CONFIG, CONFIG_FILE, attached, served, servoAngle, servoLimits,
                 SERVO_LOCK>>
oledVars == <<oled, toggle, screen>>
servoVars == <<servoShared, frame, oledVars>>
pipeVars == <<PIPELINES, procs, HUB_POWER, locals>>
vars == <<PIPELINES, procs, CAM_POWER, HUB_POWER, pc, req, keys, proto, cur,
          prev_on, hist, track, boot, trip, DEVICE_CONFIG, CONFIG_FILE, attached, served,
          servoAngle, servoLimits, SERVO_LOCK, frame, oled, toggle, screen>>

\* ------------------------------------------------------------------------
\* The registry as an insertion-ordered dict
\* ------------------------------------------------------------------------
Keys(reg) == {reg[i].k : i \in 1..Len(reg)}

KeyList(reg) == [i \in 1..Len(reg) |-> reg[i].k]

Values(reg) == {reg[i].v : i \in 1..Len(reg)}

Lookup(reg, k) ==
    IF k \in Keys(reg)
    THEN (CHOOSE e \in {reg[i] : i \in 1..Len(reg)} : e.k = k).v
    ELSE NoProc

DictPop(reg, k) == SelectSeq(reg, LAMBDA e : e.k # k)

DictPut(reg, k, v) ==
    IF k \in Keys(reg)
    THEN [i \in 1..Len(reg) |-> IF reg[i].k = k THEN [k |-> k, v |-> v] ELSE reg[i]]
    ELSE Append(reg, [k |-> k, v |-> v])

\* ------------------------------------------------------------------------
\* _make_gst_pipeline: validation of (protocol, url)
\* ------------------------------------------------------------------------
Digits == {"0","1","2","3","4","5","6","7","8","9"}

UdpPrefix == <<"u","d","p",":","/","/">>

\* Length of the longest prefix of s, from position i, made of chars in cls.
RECURSIVE RunLen(_, _, _)
RunLen(s, i, cls) ==
    IF i <= Len(s) /\ s[i] \in cls THEN 1 + RunLen(s, i + 1, cls) ELSE 0

\* re.match(r"udp://([\d.]+):(\d+)", url): a match anchored at the start.
\* [\d.]+ cannot consume ':', so the greedy run is the only candidate.
UdpUrlMatch(url) ==
    /\ Len(url) >= Len(UdpPrefix)
    /\ SubSeq(url, 1, Len(UdpPrefix)) = UdpPrefix
    /\ LET h == RunLen(url, 7, Digits \cup {"."})
       IN /\ h >= 1
          /\ 7 + h <= Len(url)
          /\ url[7 + h] = ":"
          /\ RunLen(url, 8 + h, Digits) >= 1

\* The launcher the command starts with, or "ValueError" when it raises.
make_gst_pipeline(protocol, url) ==
    IF protocol = "udp"
    THEN IF UdpUrlMatch(url) THEN "gst-launch-1.0" ELSE "ValueError"
    ELSE IF protocol = "hls" THEN "gst-launch-1.0"
    ELSE IF protocol = "rtsp" THEN "test-launch"
    ELSE "ValueError"

\* ------------------------------------------------------------------------
\* Initial state
\* ------------------------------------------------------------------------
\* alone: no other request has run since this one began; pre, n: the registry and
\* the number of processes when it began (recorded when track is set and the
\* request began alone); log: the power handler's side effects in order;
\* out: how the handler ended.
NewHist == [alone |-> FALSE, pre |-> <<>>, n |-> 0, log |-> <<>>, out |-> ""]

Axes == {"pan", "tilt"}

\* One axis's entry of servo_map.
MapCfg(center, direction, scale) ==
    [center |-> center, direction |-> direction, scale |-> scale]

DefaultMap == [a \in Axes |-> MapCfg(120, -1, 1)]

DEFAULT_CONFIG ==
    [servo_limits |-> [a \in Axes |-> IF a = "pan" THEN <<30, 210>> ELSE <<80, 165>>],
     pwr_init |-> TRUE,
     pan_init |-> 120,
     tilt_init |-> 120,
     servo_map |-> DefaultMap]

\* A quotient of two integers, as Python's true division leaves it; den = 0
\* is never built (the division raises).
Frac(n, d) == [num |-> n, den |-> d]

\* The locals of a motion / motion_limit call and the fields of its response.
EmptyFrame ==
    [center |-> 0, direction |-> 0, scale |-> 0,
     servo_angle |-> 0, limited_angle |-> 0, move_time |-> 0,
     min_raw |-> 0, max_raw |-> 0,
     physical_angle |-> 0, mapped |-> <<>>]

\* No round trip is being computed.
NoTrip == [stage |-> "none"]

\* No request has been picked up, nothing has been spawned.
InitIdle ==
    /\ PIPELINES = <<>>
    /\ procs = <<>>
    /\ served = 0
    /\ SERVO_LOCK = {}
    /\ frame = [t \in Workers |-> EmptyFrame]
    /\ toggle = FALSE
    /\ screen = <<>>
    /\ HUB_POWER = TRUE
    /\ pc = [t \in Workers |-> "idle"]
    /\ req = [t \in Workers |-> NoReq]
    /\ keys = [t \in Workers |-> <<>>]
    /\ proto = [t \in Workers |-> ""]
    /\ cur = [t \in Workers |-> NoProc]
    /\ prev_on = [t \in Workers |-> FALSE]
    /\ hist = [t \in Workers |-> NewHist]

\* The daemon after its module-level start-up: the config file is absent or
\* holds the defaults with either power setting, the servos answered (and
\* were given the limits and moved to the init angles) or timed out (and the
\* proxies are None).
InitServing ==
    /\ boot = "up"
    /\ CAM_POWER \in BOOLEAN    \* pwr_init of the loaded config
    /\ DEVICE_CONFIG = [DEFAULT_CONFIG EXCEPT !.pwr_init = CAM_POWER]
    /\ CONFIG_FILE = DEVICE_CONFIG
    /\ attached \in BOOLEAN
    /\ servoAngle = [a \in Axes |-> IF a = "pan" THEN DEVICE_CONFIG.pan_init
                                                ELSE DEVICE_CONFIG.tilt_init]
    /\ servoLimits = DEVICE_CONFIG.servo_limits
    /\ oled = "sleep"
    /\ InitIdle

InitDaemon == InitServing /\ trip = NoTrip

\* ------------------------------------------------------------------------
\* Request bookkeeping (history only)
\* ------------------------------------------------------------------------
\* A worker that is not inside a handler: free, or holding a finished response.
Quiet(u) == pc[u] \in {"idle", "done"}

\* A worker picks up a request: its history starts afresh, and every other
\* request, in progress or finished and not yet answered, is marked as no
\* longer alone: alone says that no other request has run since this one
\* began.
BeginHist(t) ==
    [u \in Workers |->
        IF u = t
        THEN IF \A v \in Workers \ {t} : Quiet(v)
             THEN [NewHist EXCEPT !.alone = TRUE,
                                  !.pre = IF track THEN PIPELINES ELSE <<>>,
                                  !.n = IF track THEN Len(procs) ELSE 0]
             ELSE NewHist
        ELSE IF pc[u] = "idle" THEN hist[u]
             ELSE [hist[u] EXCEPT !.alone = FALSE, !.pre = <<>>, !.n = 0]]

\* The power handler's sequence of side effects.
Logged(t, ev) ==
    IF req[t].kind = "power" THEN [hist EXCEPT ![t].log = Append(@, ev)] ELSE hist

Finished(h, t, out) == [h EXCEPT ![t].out = out]

\* Processes this behaviour may still spawn: each start request in flight
\* before its Popen holds one slot of the process table.
PreSpawnPcs == {"start_check", "start_keys", "start_make", "start_spawn"}

StartInFlight(u) ==
    /\ req[u].kind = "stream"
    /\ req[u].on
    /\ \/ pc[u] \in PreSpawnPcs
       \/ pc[u] \in {"stop_pop", "stop_poll", "stop_wait", "stop_kill"}

SpawnBudget == Len(procs) + Cardinality({u \in Workers : StartInFlight(u)}) < MaxProcs

\* ------------------------------------------------------------------------
\* stream_control (POST) : _start_pipeline / _stop_pipeline
\* ------------------------------------------------------------------------

\* POST /stream/<protocol> with {"on": on, "url": url}
StreamPost(t, protocol, on, url) ==
    /\ pc[t] = "idle"
    /\ on => SpawnBudget
    /\ req' = [req EXCEPT ![t] = [kind |-> "stream", protocol |-> protocol,
                                  on |-> on, url |-> url]]
    /\ pc' = [pc EXCEPT ![t] = IF on THEN "start_check" ELSE "stop_pop"]
    /\ proto' = [proto EXCEPT ![t] = IF on THEN "" ELSE protocol]
    /\ hist' = BeginHist(t)
    /\ UNCHANGED <<pipeShared, keys, cur, prev_on, track, boot, trip, servoVars>>

\* Mutant of StartCheck: the early return for a recorded protocol is missing.
StartCheck_NoEarlyReturn(t) ==
    /\ pc[t] = "start_check"
    /\ pc' = [pc EXCEPT ![t] = "start_keys"]
    /\ UNCHANGED <<pipeShared, req, locals, hist, track, boot, trip, servoVars>>

\* if protocol in PIPELINES: return
StartCheck(t) ==
    /\ pc[t] = "start_check"
    /\ IF req[t].protocol \in Keys(PIPELINES)
       THEN /\ pc' = [pc EXCEPT ![t] = "done"]
            /\ hist' = Finished(hist, t, "already_running")
       ELSE /\ pc' = [pc EXCEPT ![t] = "start_keys"]
            /\ UNCHANGED hist
    /\ UNCHANGED <<pipeShared, req, locals, track, boot, trip, servoVars>>

\* The for statement over a key snapshot: next key, or leave the loop.
LoopStep(t, ks, exitPc) ==
    /\ pc' = [pc EXCEPT ![t] = IF ks = <<>> THEN exitPc ELSE "stop_pop"]
    /\ proto' = [proto EXCEPT ![t] = IF ks = <<>> THEN "" ELSE Head(ks)]
    /\ keys' = [keys EXCEPT ![t] = IF ks = <<>> THEN <<>> ELSE Tail(ks)]

\* Mutant of StartKeys: the competing sessions are not stopped.
StartKeys_NoStop(t) ==
    /\ pc[t] = "start_keys"
    /\ LoopStep(t, <<>>, "start_make")
    /\ UNCHANGED <<pipeShared, req, cur, prev_on, hist, track, boot, trip, servoVars>>

\* for proto in list(PIPELINES.keys()): _stop_pipeline(proto)
StartKeys(t) ==
    /\ pc[t] = "start_keys"
    /\ LoopStep(t, KeyList(PIPELINES), "start_make")
    /\ UNCHANGED <<pipeShared, req, cur, prev_on, hist, track, boot, trip, servoVars>>

\* Mutant of StopPop: the pop empties the registry.
StopPop_Clear(t) ==
    /\ pc[t] = "stop_pop"
    /\ cur' = [cur EXCEPT ![t] = Lookup(PIPELINES, proto[t])]
    /\ PIPELINES' = <<>>
    /\ procs' = IF Lookup(PIPELINES, proto[t]) = NoProc THEN procs
                ELSE [procs EXCEPT ![Lookup(PIPELINES, proto[t])].popped = TRUE]
    /\ pc' = [pc EXCEPT ![t] = "stop_poll"]
    /\ UNCHANGED <<CAM_POWER, HUB_POWER, req, keys, proto, prev_on, hist, track, boot, trip, servoVars>>

\* proc = PIPELINES.pop(protocol, None)
StopPop(t) ==
    /\ pc[t] = "stop_pop"
    /\ cur' = [cur EXCEPT ![t] = Lookup(PIPELINES, proto[t])]
    /\ PIPELINES' = DictPop(PIPELINES, proto[t])
    /\ procs' = IF Lookup(PIPELINES, proto[t]) = NoProc THEN procs
                ELSE [procs EXCEPT ![Lookup(PIPELINES, proto[t])].popped = TRUE]
    /\ pc' = [pc EXCEPT ![t] = "stop_poll"]
    /\ UNCHANGED <<CAM_POWER, HUB_POWER, req, keys, proto, prev_on, hist, track, boot, trip, servoVars>>

\* _stop_pipeline returns to its caller.
StopReturn(t, h) ==
    /\ cur' = [cur EXCEPT ![t] = NoProc]
    /\ IF req[t].kind = "stream" /\ ~req[t].on
       THEN /\ pc' = [pc EXCEPT ![t] = "done"]
            /\ proto' = [proto EXCEPT ![t] = ""]
            /\ hist' = Finished(h, t, "stopped")
            /\ UNCHANGED keys
       ELSE /\ LoopStep(t, keys[t], IF req[t].kind = "power" THEN "pw_write" ELSE "start_make")
            /\ hist' = h

\* if proc and proc.poll() is None: proc.send_signal(signal.SIGINT)
StopPoll(t) ==
    /\ pc[t] = "stop_poll"
    /\ IF cur[t] # NoProc /\ procs[cur[t]].alive
       THEN /\ procs' = [procs EXCEPT ![cur[t]].sigint = TRUE]
            /\ pc' = [pc EXCEPT ![t] = "stop_wait"]
            /\ UNCHANGED <<keys, proto, cur, hist>>
       ELSE /\ StopReturn(t, Logged(t, "stop"))
            /\ UNCHANGED procs
    /\ UNCHANGED <<PIPELINES, CAM_POWER, HUB_POWER, req, prev_on, track, boot, trip, servoVars>>

\* proc.wait(5) returns: the process exited within the grace period.
StopWaitExit(t) ==
    /\ pc[t] = "stop_wait"
    /\ ~procs[cur[t]].alive
    /\ StopReturn(t, Logged(t, "stop"))
    /\ UNCHANGED <<pipeShared, req, prev_on, track, boot, trip, servoVars>>

\* proc.wait(5) raises TimeoutExpired: the process is still running.
StopWaitTimeout(t) ==
    /\ pc[t] = "stop_wait"
    /\ procs[cur[t]].alive
    /\ procs' = [procs EXCEPT ![cur[t]].expired = TRUE]
    /\ pc' = [pc EXCEPT ![t] = "stop_kill"]
    /\ UNCHANGED <<PIPELINES, CAM_POWER, HUB_POWER, req, locals, hist, track, boot, trip, servoVars>>

\* Mutant of StopKill: the TimeoutExpired handler does not kill.
StopKill_NoKill(t) ==
    /\ pc[t] = "stop_kill"
    /\ StopReturn(t, Logged(t, "stop"))
    /\ UNCHANGED <<pipeShared, req, prev_on, track, boot, trip, servoVars>>

\* proc.kill()
StopKill(t) ==
    /\ pc[t] = "stop_kill"
    /\ procs' = [procs EXCEPT ![cur[t]].alive = FALSE, ![cur[t]].killed = TRUE]
    /\ StopReturn(t, Logged(t, "stop"))
    /\ UNCHANGED <<PIPELINES, CAM_POWER, HUB_POWER, req, prev_on, track, boot, trip, servoVars>>

\* cmd = _make_gst_pipeline(protocol, view, url); a ValueError becomes a 400.
StartMake(t) ==
    /\ pc[t] = "start_make"
    /\ IF make_gst_pipeline(req[t].protocol, req[t].url) = "ValueError"
       THEN /\ pc' = [pc EXCEPT ![t] = "done"]
            /\ hist' = Finished(hist, t, "value_error")
       ELSE /\ pc' = [pc EXCEPT ![t] = "start_spawn"]
            /\ UNCHANGED hist
    /\ UNCHANGED <<pipeShared, req, locals, track, boot, trip, servoVars>>

NewProc(protocol) ==
    [proto |-> protocol, alive |-> TRUE, popped |-> FALSE, sigint |-> FALSE,
     expired |-> FALSE, killed |-> FALSE]

\* proc = subprocess.Popen(shlex.split(cmd), ...)
StartSpawn(t) ==
    /\ pc[t] = "start_spawn"
    /\ procs' = Append(procs, NewProc(req[t].protocol))
    /\ cur' = [cur EXCEPT ![t] = Len(procs) + 1]
    /\ pc' = [pc EXCEPT ![t] = "start_record"]
    /\ UNCHANGED <<PIPELINES, CAM_POWER, HUB_POWER, req, keys, proto, prev_on, hist, track, boot, trip, servoVars>>

\* PIPELINES[protocol] = proc
StartRecord(t) ==
    /\ pc[t] = "start_record"
    /\ PIPELINES' = DictPut(PIPELINES, req[t].protocol, cur[t])
    /\ cur' = [cur EXCEPT ![t] = NoProc]
    /\ pc' = [pc EXCEPT ![t] = "done"]
    /\ hist' = Finished(hist, t, "started")
    /\ UNCHANGED <<procs, CAM_POWER, HUB_POWER, req, keys, proto, prev_on, track, boot, trip, servoVars>>

\* A gst process ends by itself (pipeline error, EOS, or its reaction to
\* SIGINT); nothing in the daemon reacts to it.
ProcExit(p) ==
    /\ p \in 1..Len(procs)
    /\ procs[p].alive
    /\ procs' = [procs EXCEPT ![p].alive = FALSE]
    /\ UNCHANGED <<PIPELINES, CAM_POWER, HUB_POWER, pc, req, locals, hist, track, boot, trip, servoVars>>

\* ------------------------------------------------------------------------
\* camera_power (POST)
\* ------------------------------------------------------------------------

\* POST /power/camera with {"on": on}
PowerPost(t, on) ==
    /\ pc[t] = "idle"
    /\ req' = [req EXCEPT ![t] = [kind |-> "power", on |-> on]]
    /\ pc' = [pc EXCEPT ![t] = "pw_read"]
    /\ hist' = BeginHist(t)
    /\ UNCHANGED <<pipeShared, locals, track, boot, trip, servoVars>>

\* prev_on = bool(CAM_POWER.read())
PowerRead(t) ==
    /\ pc[t] = "pw_read"
    /\ prev_on' = [prev_on EXCEPT ![t] = CAM_POWER]
    /\ pc' = [pc EXCEPT ![t] = IF CAM_POWER /\ ~req[t].on THEN "pw_keys" ELSE "pw_write"]
    /\ UNCHANGED <<pipeShared, req, keys, proto, cur, hist, track, boot, trip, servoVars>>

\* Mutant of PowerKeys: the streams are not stopped before the power is cut.
PowerKeys_NoStop(t) ==
    /\ pc[t] = "pw_keys"
    /\ LoopStep(t, <<>>, "pw_write")
    /\ UNCHANGED <<pipeShared, req, cur, prev_on, hist, track, boot, trip, servoVars>>

\* for proto in list(PIPELINES.keys()): _stop_pipeline(proto)
PowerKeys(t) ==
    /\ pc[t] = "pw_keys"
    /\ LoopStep(t, KeyList(PIPELINES), "pw_write")
    /\ UNCHANGED <<pipeShared, req, cur, prev_on, hist, track, boot, trip, servoVars>>

\* CAM_POWER.write(on)
PowerWrite(t) ==
    /\ pc[t] = "pw_write"
    /\ CAM_POWER' = req[t].on
    /\ IF prev_on[t] /\ ~req[t].on
       THEN /\ pc' = [pc EXCEPT ![t] = "pw_hub_low"]
            /\ hist' = Logged(t, "cam")
       ELSE /\ pc' = [pc EXCEPT ![t] = "done"]
            /\ hist' = Finished(Logged(t, "cam"), t, "power_ok")
    /\ UNCHANGED <<PIPELINES, procs, HUB_POWER, req, locals, track, boot, trip, servoVars>>

\* HUB_POWER.write(False); time.sleep(1)
PowerHubLow(t) ==
    /\ pc[t] = "pw_hub_low"
    /\ HUB_POWER' = FALSE
    /\ pc' = [pc EXCEPT ![t] = "pw_hub_high"]
    /\ hist' = Logged(t, "hub_low")
    /\ UNCHANGED <<PIPELINES, procs, CAM_POWER, req, locals, track, boot, trip, servoVars>>

\* HUB_POWER.write(True); return
PowerHubHigh(t) ==
    /\ pc[t] = "pw_hub_high"
    /\ HUB_POWER' = TRUE
    /\ pc' = [pc EXCEPT ![t] = "done"]
    /\ hist' = Finished(Logged(t, "hub_high"), t, "power_ok")
    /\ UNCHANGED <<PIPELINES, procs, CAM_POWER, req, locals, track, boot, trip, servoVars>>

\* ------------------------------------------------------------------------
\* Calibration arithmetic
\* ------------------------------------------------------------------------
Max(a, b) == IF a >= b THEN a ELSE b

Min(a, b) == IF a <= b THEN a ELSE b

Abs(a) == IF a >= 0 THEN a ELSE 0 - a

\* An optional field of a JSON body: <<>> when absent, <<v>> when present.
Has(f) == Len(f) > 0

Val(f) == f[1]

\* int(center + direction * mapped * scale), all operands integers.
mapped_to_physical(center, direction, scale, mapped) ==
    center + direction * mapped * scale

\* (physical - center) / (direction * scale); raises when the divisor is 0.
DivisionRaises(direction, scale) == direction * scale = 0

physical_to_mapped(center, direction, scale, physical) ==
    Frac(physical - center, direction * scale)

\* x > y for two quotients with non-zero denominators.
FracGT(x, y) == (x.num * y.den - y.num * x.den) * (x.den * y.den) > 0

\* The response pair (min, max) of motion_limit: the mapped bounds, swapped
\* when min_mapped > max_mapped.
MappedBounds(center, direction, scale, lo, hi) ==
    LET a == physical_to_mapped(center, direction, scale, lo)
        b == physical_to_mapped(center, direction, scale, hi)
    IN IF FracGT(a, b) THEN <<b, a>> ELSE <<a, b>>

\* max(min_limit, min(max_limit, servo_angle))
Limit(min_limit, max_limit, servo_angle) == Max(min_limit, Min(max_limit, servo_angle))

\* int(abs(current_angle - limited_angle) * 1000 / 15.0)
MoveTime(current_angle, limited_angle) ==
    (Abs(current_angle - limited_angle) * 1000) \div 15

FallbackMoveTime == 1000

\* time=500 of the moves of system_init
InitMoveTime == 500

\* Mutant of NormalizeLimits: the bounds are clamped and never swapped.
NormalizeLimits_NoSwap(direction, lo, hi) == <<Max(0, Min(240, lo)), Max(0, Min(240, hi))>>

\* Lines 589-597 of motion_limit: clamp both bounds to [0, 240], swap them
\* when min > max and direction is negative or positive, truncate.
NormalizeLimits(direction, lo, hi) ==
    LET a == Max(0, Min(240, lo))
        b == Max(0, Min(240, hi))
    IN IF direction < 0 /\ a > b THEN <<b, a>>
       ELSE IF direction > 0 /\ a > b THEN <<b, a>>
       ELSE <<a, b>>

\* ------------------------------------------------------------------------
\* motion (GET, POST)
\* ------------------------------------------------------------------------
\* Workers inside a transaction on the servo bus.
BusPcs == {"mo_get_bus", "mo_read_bus", "mo_move_bus", "li_hw_bus",
           "si_pan_bus", "si_tilt_bus"}

OnBus(t) == pc[t] \in BusPcs

\* GET or POST /motion/<axis>: the axis is resolved to a proxy and the
\* calibration is read, before the lock is taken.
MotionBegin(t, r) ==
    /\ pc[t] = "idle"
    /\ served' = served + 1
    /\ req' = [req EXCEPT ![t] = r]
    /\ IF r.axis \in Axes /\ attached
       THEN LET m == DEVICE_CONFIG.servo_map[r.axis]
            IN /\ frame' = [frame EXCEPT ![t] =
                               [EmptyFrame EXCEPT !.center = m.center,
                                                  !.direction = m.direction,
                                                  !.scale = m.scale]]
               /\ pc' = [pc EXCEPT ![t] = "mo_lock"]
               /\ hist' = BeginHist(t)
       ELSE /\ frame' = frame
            /\ pc' = [pc EXCEPT ![t] = "done"]
            /\ hist' = Finished(BeginHist(t), t, "invalid_axis")
    /\ UNCHANGED <<pipeShared, pipeVars, track, boot, trip, DEVICE_CONFIG, CONFIG_FILE, attached,
                   servoAngle, servoLimits, SERVO_LOCK, oledVars>>

\* with SERVO_LOCK: ... for a GET, up to the call of get_physical_angle; for
\* a POST, the target is computed and clamped to SERVO_LIMITS[axis].
MotionLock(t) ==
    /\ pc[t] = "mo_lock"
    /\ SERVO_LOCK = {}
    /\ SERVO_LOCK' = {t}
    /\ IF req[t].method = "GET"
       THEN /\ pc' = [pc EXCEPT ![t] = "mo_get"]
            /\ frame' = frame
       ELSE LET f == frame[t]
                servo_angle == IF req[t].option = "raw"
                               THEN req[t].angle
                               ELSE mapped_to_physical(f.center, f.direction, f.scale,
                                                       req[t].angle)
                lim == DEVICE_CONFIG.servo_limits[req[t].axis]
            IN /\ frame' = [frame EXCEPT ![t].servo_angle = servo_angle,
                                         ![t].limited_angle = Limit(lim[1], lim[2], servo_angle)]
               /\ pc' = [pc EXCEPT ![t] = "mo_read"]
    /\ UNCHANGED <<pipeShared, pipeVars, req, hist, track, boot, trip, DEVICE_CONFIG, CONFIG_FILE,
                   attached, served, servoAngle, servoLimits, oledVars>>

\* A worker enters a transaction on the servo bus.
BusCall(t, from, to) ==
    /\ pc[t] = from
    /\ pc' = [pc EXCEPT ![t] = to]
    /\ UNCHANGED <<pipeShared, pipeVars, req, hist, track, boot, trip, servoVars>>

MotionGetCall(t) == BusCall(t, "mo_get", "mo_get_bus")

\* The event a handler notes in its history.
Noted(h, t, ev) == [h EXCEPT ![t].log = Append(@, ev)]

\* get_physical_angle returns, and the mapped angle is computed or the zero
\* divisor raises, or it times out; both exceptions are caught by the same
\* except clause.  The lock is released on return.
MotionGetReturn(t) ==
    /\ pc[t] = "mo_get_bus"
    /\ LET f == frame[t]
       IN \/ /\ ~DivisionRaises(f.direction, f.scale)
             /\ frame' = [frame EXCEPT ![t].physical_angle = servoAngle[req[t].axis],
                                       ![t].mapped = <<physical_to_mapped(f.center, f.direction,
                                                          f.scale, servoAngle[req[t].axis])>>]
             /\ hist' = Finished(Noted(hist, t, "read_ok"), t, "angle")
          \/ /\ DivisionRaises(f.direction, f.scale)
             /\ frame' = [frame EXCEPT ![t].physical_angle = f.center]
             /\ hist' = Finished(Noted(hist, t, "read_ok"), t, "communication_error")
          \/ /\ frame' = [frame EXCEPT ![t].physical_angle = f.center]
             /\ hist' = Finished(Noted(hist, t, "read_timeout"), t, "communication_error")
    /\ SERVO_LOCK' = {}
    /\ pc' = [pc EXCEPT ![t] = "done"]
    /\ UNCHANGED <<pipeShared, pipeVars, req, track, boot, trip, DEVICE_CONFIG, CONFIG_FILE,
                   attached, served, servoAngle, servoLimits, oledVars>>

MotionReadCall(t) == BusCall(t, "mo_read", "mo_read_bus")

\* current_angle = servo.get_physical_angle(); move_time, or 1000 on failure
MotionReadReturn(t) ==
    /\ pc[t] = "mo_read_bus"
    /\ \E ok \in BOOLEAN :
          frame' = [frame EXCEPT ![t].move_time =
                       IF ok THEN MoveTime(servoAngle[req[t].axis], frame[t].limited_angle)
                       ELSE FallbackMoveTime]
    /\ pc' = [pc EXCEPT ![t] = "mo_move"]
    /\ UNCHANGED <<pipeShared, pipeVars, req, hist, track, boot, trip, servoShared, oledVars>>

MotionMoveCall(t) == BusCall(t, "mo_move", "mo_move_bus")

\* servo.move(limited_angle, time=move_time) returns or raises; the lock is
\* released on return.
MotionMoveReturn(t) ==
    /\ pc[t] = "mo_move_bus"
    /\ LET f == frame[t]
       IN \/ /\ servoAngle' = [servoAngle EXCEPT ![req[t].axis] = f.limited_angle]
             /\ frame' = [frame EXCEPT ![t].physical_angle = f.limited_angle]
             /\ hist' = Finished(hist, t, IF f.limited_angle = f.servo_angle
                                          THEN "ok" ELSE "limited")
          \/ /\ hist' = Finished(hist, t, "servo_communication_failed")
             /\ UNCHANGED <<servoAngle, frame>>
    /\ SERVO_LOCK' = {}
    /\ pc' = [pc EXCEPT ![t] = "done"]
    /\ UNCHANGED <<pipeShared, pipeVars, req, track, boot, trip, DEVICE_CONFIG, CONFIG_FILE,
                   attached, served, servoLimits, oledVars>>

\* ------------------------------------------------------------------------
\* motion_limit (GET, POST)
\* ------------------------------------------------------------------------

\* The tail of motion_limit: the mapped bounds of (lo, hi), or the
\* ZeroDivisionError that physical_to_mapped raises.
LimitRespond(h, f, t, lo, hi) ==
    IF DivisionRaises(f.direction, f.scale)
    THEN /\ frame' = [frame EXCEPT ![t] = f]
         /\ hist' = Finished(h, t, "zero_division")
    ELSE /\ frame' = [frame EXCEPT ![t] =
                         [f EXCEPT !.min_raw = lo, !.max_raw = hi,
                                   !.mapped = MappedBounds(f.center, f.direction, f.scale, lo, hi)]]
         /\ hist' = Finished(h, t, "ok")

\* GET or POST /motion/<axis>/limit.  The calibration is read; a GET answers
\* from SERVO_LIMITS; a POST takes each bound from min_raw / max_raw, else
\* from min / max through the calibration, else from SERVO_LIMITS, and
\* normalises the pair.
LimitBegin(t, r) ==
    /\ pc[t] = "idle"
    /\ served' = served + 1
    /\ req' = [req EXCEPT ![t] = r]
    /\ IF r.axis \notin Axes
       THEN /\ frame' = frame
            /\ hist' = Finished(BeginHist(t), t, "invalid_axis")
            /\ pc' = [pc EXCEPT ![t] = "done"]
       ELSE LET m == DEVICE_CONFIG.servo_map[r.axis]
                lim == DEVICE_CONFIG.servo_limits[r.axis]
                f == [EmptyFrame EXCEPT !.center = m.center, !.direction = m.direction,
                                        !.scale = m.scale]
            IN IF r.method = "GET"
               THEN /\ LimitRespond(BeginHist(t), f, t, lim[1], lim[2])
                    /\ pc' = [pc EXCEPT ![t] = "done"]
               ELSE LET lo == IF Has(r.min_raw) THEN Val(r.min_raw)
                              ELSE IF Has(r.min)
                                   THEN mapped_to_physical(m.center, m.direction, m.scale, Val(r.min))
                                   ELSE lim[1]
                        hi == IF Has(r.max_raw) THEN Val(r.max_raw)
                              ELSE IF Has(r.max)
                                   THEN mapped_to_physical(m.center, m.direction, m.scale, Val(r.max))
                                   ELSE lim[2]
                        n == NormalizeLimits(m.direction, lo, hi)
                    IN /\ frame' = [frame EXCEPT ![t] = [f EXCEPT !.min_raw = n[1],
                                                                  !.max_raw = n[2]]]
                       /\ hist' = BeginHist(t)
                       /\ pc' = [pc EXCEPT ![t] = "li_store"]
    /\ UNCHANGED <<pipeShared, pipeVars, track, boot, trip, DEVICE_CONFIG, CONFIG_FILE, attached,
                   servoAngle, servoLimits, SERVO_LOCK, oledVars>>

\* SERVO_LIMITS[axis] = [min_raw, max_raw]; DEVICE_CONFIG["servo_limits"] = SERVO_LIMITS
LimitStore(t) ==
    /\ pc[t] = "li_store"
    /\ DEVICE_CONFIG' = [DEVICE_CONFIG EXCEPT !.servo_limits[req[t].axis] =
                            <<frame[t].min_raw, frame[t].max_raw>>]
    /\ pc' = [pc EXCEPT ![t] = "li_save"]
    /\ UNCHANGED <<pipeShared, pipeVars, req, hist, track, boot, trip, CONFIG_FILE, attached, served,
                   servoAngle, servoLimits, SERVO_LOCK, frame, oledVars>>

\* save_device_config(DEVICE_CONFIG); without a servo the response follows.
LimitSave(t) ==
    /\ pc[t] = "li_save"
    /\ CONFIG_FILE' = DEVICE_CONFIG
    /\ IF attached
       THEN /\ pc' = [pc EXCEPT ![t] = "li_hw"]
            /\ UNCHANGED <<frame, hist>>
       ELSE /\ pc' = [pc EXCEPT ![t] = "done"]
            /\ LimitRespond(hist, frame[t], t, frame[t].min_raw, frame[t].max_raw)
    /\ UNCHANGED <<pipeShared, pipeVars, req, track, boot, trip, DEVICE_CONFIG, attached, served,
                   servoAngle, servoLimits, SERVO_LOCK, oledVars>>

\* if servo: servo.set_angle_limits(min_raw, max_raw)  -- SERVO_LOCK is not taken
LimitHwCall(t) == BusCall(t, "li_hw", "li_hw_bus")

\* set_angle_limits returns, and the response is built, or it raises
\* ServoTimeoutError, which nothing in motion_limit catches.
LimitHwReturn(t) ==
    /\ pc[t] = "li_hw_bus"
    /\ \/ /\ servoLimits' = [servoLimits EXCEPT ![req[t].axis] =
                                <<frame[t].min_raw, frame[t].max_raw>>]
          /\ LimitRespond(hist, frame[t], t, frame[t].min_raw, frame[t].max_raw)
       \/ /\ hist' = Finished(hist, t, "unhandled_timeout")
          /\ UNCHANGED <<servoLimits, frame>>
    /\ pc' = [pc EXCEPT ![t] = "done"]
    /\ UNCHANGED <<pipeShared, pipeVars, req, track, boot, trip, DEVICE_CONFIG, CONFIG_FILE,
                   attached, served, servoAngle, SERVO_LOCK, oledVars>>

\* ------------------------------------------------------------------------
\* system_init (GET, POST)
\* ------------------------------------------------------------------------

\* The statement of system_init that follows the given one, for a body r:
\* each "apply" statement runs only when its key is in the body and, for the
\* two moves, the proxy is not None.
InitAfter(r, stage) ==
    IF stage < 1 /\ Has(r.pwr_init) THEN "si_pwr"
    ELSE IF stage < 2 /\ Has(r.pan_init) /\ attached THEN "si_pan"
    ELSE IF stage < 3 /\ Has(r.tilt_init) /\ attached THEN "si_tilt"
    ELSE "si_save"

\* GET /system/init returns the config; POST copies the permitted keys of the
\* body into DEVICE_CONFIG as they are.
InitBegin(t, r) ==
    /\ pc[t] = "idle"
    /\ served' = served + 1
    /\ req' = [req EXCEPT ![t] = r]
    /\ IF r.method = "GET"
       THEN /\ pc' = [pc EXCEPT ![t] = "done"]
            /\ hist' = Finished(BeginHist(t), t, "config")
            /\ DEVICE_CONFIG' = DEVICE_CONFIG
       ELSE /\ pc' = [pc EXCEPT ![t] = InitAfter(r, 0)]
            /\ hist' = BeginHist(t)
            /\ DEVICE_CONFIG' =
                  [DEVICE_CONFIG EXCEPT
                      !.pwr_init = IF Has(r.pwr_init) THEN Val(r.pwr_init) ELSE @,
                      !.pan_init = IF Has(r.pan_init) THEN Val(r.pan_init) ELSE @,
                      !.tilt_init = IF Has(r.tilt_init) THEN Val(r.tilt_init) ELSE @,
                      !.servo_map = IF Has(r.servo_map) THEN Val(r.servo_map) ELSE @]
    /\ UNCHANGED <<pipeShared, pipeVars, track, boot, trip, CONFIG_FILE, attached, servoAngle,
                   servoLimits, SERVO_LOCK, frame, oledVars>>

\* CAM_POWER.write(bool(DEVICE_CONFIG["pwr_init"]))
InitWritePower(t) ==
    /\ pc[t] = "si_pwr"
    /\ CAM_POWER' = DEVICE_CONFIG.pwr_init
    /\ pc' = [pc EXCEPT ![t] = InitAfter(req[t], 1)]
    /\ UNCHANGED <<PIPELINES, procs, HUB_POWER, locals, req, hist, track, boot, trip, servoVars>>

\* SERVO_PAN.move(DEVICE_CONFIG["pan_init"], time=500) -- SERVO_LOCK is not taken
InitPanCall(t) == BusCall(t, "si_pan", "si_pan_bus")

\* A move of system_init returns, or raises ServoTimeoutError, which nothing
\* in system_init catches: the rest of the handler, the save included, is
\* skipped.
InitMoveReturn(t, from, axis, angle, stage) ==
    /\ pc[t] = from
    /\ \/ /\ servoAngle' = [servoAngle EXCEPT ![axis] = angle]
          /\ pc' = [pc EXCEPT ![t] = InitAfter(req[t], stage)]
          /\ hist' = hist
       \/ /\ servoAngle' = servoAngle
          /\ pc' = [pc EXCEPT ![t] = "done"]
          /\ hist' = Finished(hist, t, "unhandled_timeout")
    /\ UNCHANGED <<pipeShared, pipeVars, req, track, boot, trip, DEVICE_CONFIG, CONFIG_FILE,
                   attached, served, servoLimits, SERVO_LOCK, frame, oledVars>>

InitPanReturn(t) == InitMoveReturn(t, "si_pan_bus", "pan", DEVICE_CONFIG.pan_init, 2)

\* SERVO_TILT.move(DEVICE_CONFIG["tilt_init"], time=500) -- SERVO_LOCK is not taken
InitTiltCall(t) == BusCall(t, "si_tilt", "si_tilt_bus")

InitTiltReturn(t) == InitMoveReturn(t, "si_tilt_bus", "tilt", DEVICE_CONFIG.tilt_init, 3)

\* save_device_config(DEVICE_CONFIG); return
InitSave(t) ==
    /\ pc[t] = "si_save"
    /\ CONFIG_FILE' = DEVICE_CONFIG
    /\ pc' = [pc EXCEPT ![t] = "done"]
    /\ hist' = Finished(hist, t, "ok")
    /\ UNCHANGED <<pipeShared, pipeVars, req, track, boot, trip, DEVICE_CONFIG, attached, served,
                   servoAngle, servoLimits, SERVO_LOCK, frame, oledVars>>

\* ------------------------------------------------------------------------
\* _update_oled: the display thread
\* ------------------------------------------------------------------------
OledOnBus == oled \in {"pan_bus", "tilt_bus"}

OledStep(from, to) ==
    /\ oled = from
    /\ oled' = to
    /\ UNCHANGED <<pipeShared, pipeVars, pc, req, hist, track, boot, trip, servoShared, frame, toggle,
                   screen>>

\* with OLED_LOCK: the header lines are drawn; with both proxies present
\* SERVO_PAN.get_physical_angle() is called -- SERVO_LOCK is not taken.
OledBegin == OledStep("sleep", IF attached THEN "pan_bus" ELSE "temp")

\* The pan read returns an angle or raises ('ERR'), and
\* SERVO_TILT.get_physical_angle() is called -- SERVO_LOCK is not taken.
OledPanReturn == OledStep("pan_bus", "tilt_bus")

\* The tilt read returns an angle or raises ('ERR').
OledTiltReturn == OledStep("tilt_bus", "temp")

\* tmax >= 80
OverheatC == 80

\* max(temps.values())
SetMax(temps) == CHOOSE m \in temps : \A v \in temps : v <= m

\* The temperature readout of one image (lines 334-347): nothing without a
\* sensor; at 80 C or more right-aligned, white on black, or black on a white
\* box when toggle is set; below 80 C white on black at width - 45.
Readout(temps, inverse) ==
    IF temps = {}
    THEN [tmax |-> <<>>, at |-> "none", inverted |-> FALSE]
    ELSE IF SetMax(temps) >= OverheatC
    THEN [tmax |-> <<SetMax(temps)>>, at |-> "right", inverted |-> inverse]
    ELSE [tmax |-> <<SetMax(temps)>>, at |-> "fixed", inverted |-> FALSE]

Displayed(shown, readout) ==
    IF Len(shown) < 2 THEN Append(shown, readout) ELSE <<shown[2], readout>>

OledDisplay_NoFlip(temps) ==
    /\ oled = "temp"
    /\ oled' = "sleep"
    /\ screen' = Displayed(screen, Readout(temps, toggle))
    /\ toggle' = toggle
    /\ UNCHANGED <<pipeShared, pipeVars, pc, req, hist, track, boot, trip, servoShared, frame>>

\* The sensors read temps; the temperature is drawn, the image displayed,
\* OLED_LOCK released and toggle flipped before the one-second sleep.
OledDisplay(temps) ==
    /\ oled = "temp"
    /\ oled' = "sleep"
    /\ screen' = Displayed(screen, Readout(temps, toggle))
    /\ toggle' = ~toggle
    /\ UNCHANGED <<pipeShared, pipeVars, pc, req, hist, track, boot, trip, servoShared, frame>>

\* The response has been sent; the worker is free again.
Respond(t) ==
    /\ pc[t] = "done"
    /\ pc' = [pc EXCEPT ![t] = "idle"]
    /\ req' = [req EXCEPT ![t] = NoReq]
    /\ prev_on' = [prev_on EXCEPT ![t] = FALSE]
    /\ hist' = [hist EXCEPT ![t] = NewHist]
    /\ frame' = [frame EXCEPT ![t] = EmptyFrame]
    /\ UNCHANGED <<pipeShared, keys, proto, cur, track, boot, trip, servoShared, oledVars>>

\* ------------------------------------------------------------------------
\* Specifications of the pipeline manager and the power handler
\* ------------------------------------------------------------------------

\* The steps of stream_control after the request was picked up.
StreamStep(t) ==
    \/ StartCheck(t)
    \/ StartKeys(t)
    \/ StopPop(t)
    \/ StopPoll(t)
    \/ StopWaitExit(t)
    \/ StopWaitTimeout(t)
    \/ StopKill(t)
    \/ StartMake(t)
    \/ StartSpawn(t)
    \/ StartRecord(t)
    \/ Respond(t)

\* The steps of camera_power (its _stop_pipeline calls are StreamStep's).
PowerStep(t) ==
    \/ \E on \in BOOLEAN : PowerPost(t, on)
    \/ PowerRead(t)
    \/ PowerKeys(t)
    \/ PowerWrite(t)
    \/ PowerHubLow(t)
    \/ PowerHubHigh(t)

\* Concurrent stream requests, from the start-up with the default config.
InitPipe == InitDaemon /\ track = FALSE /\ attached /\ CAM_POWER

NextPipe ==
    \/ \E t \in Workers, r \in StreamRequests : StreamPost(t, r.protocol, r.on, r.url)
    \/ \E t \in Workers : StreamStep(t)
    \/ \E p \in 1..MaxProcs : ProcExit(p)

SpecPipe == InitPipe /\ [][NextPipe]_vars

\* Concurrent power requests and well-formed start requests, from the same
\* start-up.
InitPower == InitDaemon /\ track = TRUE /\ attached /\ CAM_POWER

NextPower ==
    \/ \E t \in Workers, r \in ValidStartRequests : StreamPost(t, r.protocol, r.on, r.url)
    \/ \E t \in Workers : StreamStep(t)
    \/ \E t \in Workers : PowerStep(t)
    \/ \E p \in 1..MaxProcs : ProcExit(p)

SpecPower == InitPower /\ [][NextPower]_vars

\* One request at a time, of any kind.
InitSeq == InitDaemon /\ track = TRUE /\ attached

Worker1 == CHOOSE t \in Workers : \A u \in Workers : t <= u

NextSeq ==
    \/ \E r \in StreamRequests : StreamPost(Worker1, r.protocol, r.on, r.url)
    \/ StreamStep(Worker1)
    \/ PowerStep(Worker1)
    \/ \E p \in 1..MaxProcs : ProcExit(p)

SpecSeq == InitSeq /\ [][NextSeq]_vars

\* ------------------------------------------------------------------------
\* Specifications of the motion, limit and init/config handlers
\* ------------------------------------------------------------------------
None == <<>>

Some(v) == <<v>>

MotionReq(method, axis, angle, option) ==
    [kind |-> "motion", method |-> method, axis |-> axis, angle |-> angle,
     option |-> option]

LimitReq(method, axis, min_raw, max_raw, min_mapped, max_mapped) ==
    [kind |-> "limit", method |-> method, axis |-> axis, min_raw |-> min_raw,
     max_raw |-> max_raw, min |-> min_mapped, max |-> max_mapped]

InitReq(method, pwr_init, pan_init, tilt_init, servo_map) ==
    [kind |-> "init", method |-> method, pwr_init |-> pwr_init,
     pan_init |-> pan_init, tilt_init |-> tilt_init, servo_map |-> servo_map]

\* The steps of motion after the request was picked up.
MotionStep(t) ==
    \/ MotionLock(t)
    \/ MotionGetCall(t)
    \/ MotionGetReturn(t)
    \/ MotionReadCall(t)
    \/ MotionReadReturn(t)
    \/ MotionMoveCall(t)
    \/ MotionMoveReturn(t)

\* The steps of motion_limit after the request was picked up.
LimitStep(t) ==
    \/ LimitStore(t)
    \/ LimitSave(t)
    \/ LimitHwCall(t)
    \/ LimitHwReturn(t)

\* The steps of system_init after the request was picked up.
InitStep(t) ==
    \/ InitWritePower(t)
    \/ InitPanCall(t)
    \/ InitPanReturn(t)
    \/ InitTiltCall(t)
    \/ InitTiltReturn(t)
    \/ InitSave(t)

\* The steps of the display thread.
OledNext(sensed) ==
    \/ OledBegin
    \/ OledPanReturn
    \/ OledTiltReturn
    \/ \E temps \in sensed : OledDisplay(temps)

\* Requests of the concurrent specification: an angle read, a mapped move
\* beyond the default limits and one within them; two limit updates of one
\* axis, one giving only the min and one only the max; an init/config update
\* that moves the pan axis and one that switches the power, moves the tilt
\* axis and reverses the pan direction.
ServoMotionRequests ==
    {MotionReq("GET", "pan", 0, ""),
     MotionReq("POST", "pan", 100, ""),
     MotionReq("POST", "tilt", 0, "")}

ServoLimitRequests ==
    {LimitReq("POST", "pan", Some(100), None, None, None),
     LimitReq("POST", "pan", None, Some(150), None, None)}

ServoInitRequests ==
    {InitReq("POST", None, Some(100), None, None),
     InitReq("POST", Some(FALSE), None, Some(100),
             Some([DefaultMap EXCEPT !["pan"].direction = 1]))}

\* What the temperature sensors read while requests are served.
ServoTemps == {{50}}

InitServo == InitDaemon /\ track = FALSE

NextServo ==
    \/ /\ served < MaxRequests
       /\ \/ \E t \in Workers, r \in ServoMotionRequests : MotionBegin(t, r)
          \/ \E t \in Workers, r \in ServoLimitRequests : LimitBegin(t, r)
          \/ \E t \in Workers, r \in ServoInitRequests : InitBegin(t, r)
    \/ \E t \in Workers : MotionStep(t)
    \/ \E t \in Workers : LimitStep(t)
    \/ \E t \in Workers : InitStep(t)
    \/ \E t \in Workers : Respond(t)
    \/ OledNext(ServoTemps)

SpecServo == InitServo /\ [][NextServo]_vars

\* Requests of the sequential specification, all on the pan axis: an angle
\* read, mapped and raw moves within and beyond the default limits; a limit
\* read, limit updates with raw bounds in the wrong order, logical bounds,
\* one raw bound beyond the range and one logical bound; a config read and
\* init/config updates that set the pan direction to 1 and to 0 and the
\* scale to 2, and one that moves the pan axis.
CalibMotionRequests ==
    {MotionReq("GET", "pan", 0, "")}
    \cup {MotionReq("POST", "pan", x, "") : x \in {0, 100}}
    \cup {MotionReq("POST", "pan", x, "raw") : x \in {100, 250}}
    \cup {MotionReq("POST", "roll", 0, "")}

CalibLimitRequests ==
    {LimitReq("GET", "pan", None, None, None, None),
     LimitReq("POST", "pan", Some(200), Some(100), None, None),
     LimitReq("POST", "pan", None, None, Some(0 - 50), Some(50)),
     LimitReq("POST", "pan", Some(300), None, None, None),
     LimitReq("POST", "pan", None, None, None, Some(100)),
     LimitReq("POST", "roll", Some(200), Some(100), None, None)}

CalibMaps ==
    {[DefaultMap EXCEPT !["pan"].direction = 1],
     [DefaultMap EXCEPT !["pan"].direction = 0],
     [DefaultMap EXCEPT !["pan"].scale = 2]}

CalibInitRequests ==
    {InitReq("GET", None, None, None, None),
     InitReq("POST", Some(FALSE), Some(100), Some(100), None)}
    \cup {InitReq("POST", None, None, None, Some(m)) : m \in CalibMaps}

InitCalib == InitDaemon /\ track = TRUE

NextCalib ==
    \/ /\ served < MaxCalibRequests
       /\ \/ \E r \in CalibMotionRequests : MotionBegin(Worker1, r)
          \/ \E r \in CalibLimitRequests : LimitBegin(Worker1, r)
          \/ \E r \in CalibInitRequests : InitBegin(Worker1, r)
    \/ MotionStep(Worker1)
    \/ LimitStep(Worker1)
    \/ InitStep(Worker1)
    \/ Respond(Worker1)

SpecCalib == InitCalib /\ [][NextCalib]_vars

\* ------------------------------------------------------------------------
\* Python float arithmetic of the calibration mapping (IEEE 754 binary64,
\* round to nearest, ties to even)
\* ------------------------------------------------------------------------
\* A natural number of any size is the sequence of its binary digits, lowest
\* first, without leading zeros (TLC's integers stop at 2^31).  A float is
\* (-1)^neg * mant * 2^exp with mant such a number of at most MantissaBits
\* digits.  The values of the mapping stay far from overflow and from the
\* subnormal range.
MantissaBits == 53

\* The long division of two integers produces the digits after the binary
\* point in chunks of ChunkBits, QuotientChunks of them before rounding:
\* enough for MantissaBits significant digits and a guard digit of any
\* quotient of at least 2^-8.  A divisor stays below 2^(31 - ChunkBits).
ChunkBits == 16

QuotientChunks == 4

QuotientBits == QuotientChunks * ChunkBits

\* The digits of a small natural number, and back.
RECURSIVE Bits(_)
Bits(n) == IF n = 0 THEN <<>> ELSE <<n % 2>> \o Bits(n \div 2)

RECURSIVE BitsValue(_)
BitsValue(b) == IF b = <<>> THEN 0 ELSE Head(b) + 2 * BitsValue(Tail(b))

\* Without leading zeros.
Strip(b) ==
    LET ones == {i \in 1..Len(b) : b[i] = 1}
    IN  IF ones = {} THEN <<>>
        ELSE SubSeq(b, 1, CHOOSE i \in ones : \A j \in ones : j <= i)

Digit(b, i) == IF i <= Len(b) THEN b[i] ELSE 0

\* Digits lo..hi of a + sign * b and the carry (0, 1 or -1) out of them, by
\* halves.
RECURSIVE BitsSum(_, _, _, _, _, _)
BitsSum(a, b, sign, lo, hi, carry) ==
    IF lo > hi
    THEN [digits |-> <<>>, carry |-> carry]
    ELSE IF lo = hi
    THEN LET s == Digit(a, lo) + sign * Digit(b, lo) + carry
         IN  [digits |-> <<s % 2>>, carry |-> (s - (s % 2)) \div 2]
    ELSE LET mid == (lo + hi) \div 2
             low == BitsSum(a, b, sign, lo, mid, carry)
             high == BitsSum(a, b, sign, mid + 1, hi, low.carry)
         IN  [digits |-> low.digits \o high.digits, carry |-> high.carry]

BitsAdd(a, b) ==
    LET sum == BitsSum(a, b, 1, 1, Max(Len(a), Len(b)), 0)
    IN  Strip(sum.digits \o <<sum.carry>>)

\* a - b for a >= b
BitsSub(a, b) == Strip(BitsSum(a, b, -1, 1, Len(a), 0).digits)

BitsLess(a, b) == BitsSum(a, b, -1, 1, Max(Len(a), Len(b)), 0).carry < 0

ShiftLeft(b, k) == IF b = <<>> THEN <<>> ELSE [i \in 1..k |-> 0] \o b

\* a * s for a small natural number s
RECURSIVE BitsTimes(_, _)
BitsTimes(a, s) ==
    IF s = 0 THEN <<>>
    ELSE BitsAdd(IF s % 2 = 1 THEN a ELSE <<>>, ShiftLeft(BitsTimes(a, s \div 2), 1))

\* The lowest w digits of n.
FixedBits(n, w) == [i \in 1..w |-> (n \div 2^(i - 1)) % 2]

\* What is left of r < k after c chunks of digits of r / k: r * 2^(c * ChunkBits) mod k.
RECURSIVE FractionRest(_, _, _)
FractionRest(r, k, c) ==
    IF c = 0 THEN r ELSE (FractionRest(r, k, c - 1) * 2^ChunkBits) % k

\* The first c chunks of digits of r / k after the binary point, lowest first.
RECURSIVE FractionBits(_, _, _)
FractionBits(r, k, c) ==
    IF c = 0 THEN <<>>
    ELSE FixedBits((FractionRest(r, k, c - 1) * 2^ChunkBits) \div k, ChunkBits)
            \o FractionBits(r, k, c - 1)

Float(neg, mant, exp) == [neg |-> neg, mant |-> mant, exp |-> exp]

\* The float nearest to (-1)^neg * (b + rest) * 2^exp, where rest < 1 is zero
\* or not (inexact): the digits below the top MantissaBits are dropped and the
\* kept part goes up by one when they are more than half a unit, or exactly
\* half and the kept part is odd.
RoundFloat(neg, b, exp, inexact) ==
    LET drop == Len(b) - MantissaBits
    IN  IF drop <= 0
        THEN Float(neg, b, exp)
        ELSE LET kept == SubSeq(b, drop + 1, Len(b))
                 half == b[drop] = 1
                 more == inexact \/ \E i \in 1..(drop - 1) : b[i] = 1
                 up == half /\ (more \/ kept[1] = 1)
                 m == IF up THEN BitsAdd(kept, <<1>>) ELSE kept
             IN  IF Len(m) > MantissaBits
                 THEN Float(neg, Tail(m), exp + drop + 1)
                 ELSE Float(neg, m, exp + drop)

\* num / den for integers, den # 0 (Python's true division, correctly rounded)
IntTrueDiv(num, den) ==
    LET an == Abs(num)
        ad == Abs(den)
        q == Strip(FractionBits(an % ad, ad, QuotientChunks) \o Bits(an \div ad))
    IN  RoundFloat((num < 0) # (den < 0), q, -QuotientBits,
                   FractionRest(an % ad, ad, QuotientChunks) # 0)

\* i * f and f * i for an integer i and a float f
IntTimesFloat(i, f) ==
    IF f.mant = <<>> \/ i = 0
    THEN Float((i < 0) # f.neg, <<>>, 0)
    ELSE RoundFloat((i < 0) # f.neg, BitsTimes(f.mant, Abs(i)), f.exp, FALSE)

\* i + f for an integer i >= 0 and a float f with f.exp <= 0
IntPlusFloat(i, f) ==
    IF f.mant = <<>>
    THEN Float(FALSE, Bits(i), 0)
    ELSE LET a == ShiftLeft(Bits(i), -f.exp)
         IN  IF ~f.neg
             THEN RoundFloat(FALSE, BitsAdd(a, f.mant), f.exp, FALSE)
             ELSE IF BitsLess(a, f.mant)
             THEN RoundFloat(TRUE, BitsSub(f.mant, a), f.exp, FALSE)
             ELSE RoundFloat(FALSE, BitsSub(a, f.mant), f.exp, FALSE)

\* int(f): the integer part, towards zero
FloatToInt(f) ==
    LET whole == IF f.exp >= 0
                 THEN BitsValue(ShiftLeft(f.mant, f.exp))
                 ELSE IF -f.exp >= Len(f.mant) THEN 0
                 ELSE BitsValue(SubSeq(f.mant, 1 - f.exp, Len(f.mant)))
    IN  IF f.neg THEN -whole ELSE whole

\* (physical - center) / (direction * scale)
physical_to_mapped_float(center, direction, scale, physical) ==
    IntTrueDiv(physical - center, direction * scale)

\* int(center + direction * mapped * scale) for a float mapped
mapped_to_physical_float(center, direction, scale, mapped) ==
    FloatToInt(IntPlusFloat(center,
                  IntTimesFloat(scale, IntTimesFloat(direction, mapped))))

\* The display thread alone: no sensor, or sensors reading below, at and
\* above 80 C.
OledTemps == SUBSET {50, 79, 80, 95}

InitOled == InitDaemon /\ track = FALSE /\ CAM_POWER

NextOled == OledNext(OledTemps)

SpecOled == InitOled /\ [][NextOled]_vars

\* ------------------------------------------------------------------------
\* The calibration mapping applied one way and back
\* ------------------------------------------------------------------------
\* Calibrations and physical angles of a round trip: the default center and
\* the lowest angle as center, both directions, some integer scales, every
\* integer angle of the servo's range.
Trips ==
    { [stage |-> "physical", center |-> c, direction |-> d, scale |-> s,
       physical |-> x] :
          c \in {0, 120}, d \in {-1, 1}, s \in {1, 2, 3, 7}, x \in 0..240 }

InitTrip ==
    /\ InitServing
    /\ track = FALSE
    /\ attached
    /\ CAM_POWER
    /\ trip \in Trips

\* physical_to_mapped(physical), as motion_limit's GET answers it
ToMapped ==
    /\ trip.stage = "physical"
    /\ trip' = [stage |-> "mapped", center |-> trip.center,
                direction |-> trip.direction, scale |-> trip.scale,
                physical |-> trip.physical,
                mapped |-> physical_to_mapped_float(trip.center, trip.direction,
                                                    trip.scale, trip.physical)]
    /\ UNCHANGED <<pipeShared, pipeVars, pc, req, hist, track, boot, servoVars>>

\* mapped_to_physical(mapped), as motion_limit's POST stores it
ToPhysical ==
    /\ trip.stage = "mapped"
    /\ trip' = [stage |-> "back", center |-> trip.center,
                direction |-> trip.direction, scale |-> trip.scale,
                physical |-> trip.physical, mapped |-> trip.mapped,
                back |-> mapped_to_physical_float(trip.center, trip.direction,
                                                  trip.scale, trip.mapped)]
    /\ UNCHANGED <<pipeShared, pipeVars, pc, req, hist, track, boot, servoVars>>

NextTrip == ToMapped \/ ToPhysical

SpecTrip == InitTrip /\ [][NextTrip]_vars

\* ------------------------------------------------------------------------
\* Start-up: load_device_config and the module-level code that applies it
\* ------------------------------------------------------------------------
ConfigKeys == {"servo_limits", "pwr_init", "pan_init", "tilt_init", "servo_map"}

\* What device_config.json may hold when the daemon starts.  There is no file;
\* or the file cannot be opened or parsed, or its top level is not an object;
\* or it parses to an object ("doc") in which each top-level key is missing
\* (None) or present (Some).  A present servo_limits is an object (dict) with
\* each axis missing or present, or some other JSON value; a present axis
\* value is a list or not, of some length.
AbsentStore == [kind |-> "absent"]

UnreadableStore == [kind |-> "unreadable"]

\* A JSON value found under servo_limits[axis]: list says it is a list,
\* items are its elements (of a string or an object when it is not a list; a
\* number or null has none).
AxisValues ==
    { [list |-> TRUE,  items |-> <<50, 200>>],
      [list |-> TRUE,  items |-> <<50>>],
      [list |-> TRUE,  items |-> <<50, 100, 200>>],
      [list |-> FALSE, items |-> <<50, 200>>],
      [list |-> FALSE, items |-> <<>>] }

LimitsValues ==
    { [dict |-> FALSE, pan |-> None, tilt |-> None] }
    \cup { [dict |-> TRUE, pan |-> p, tilt |-> q] :
              p \in {None} \cup {Some(v) : v \in AxisValues},
              q \in {None} \cup {Some(v) : v \in AxisValues} }

DocStores ==
    { [kind |-> "doc", servo_limits |-> l, pwr_init |-> w, pan_init |-> p,
       tilt_init |-> q, servo_map |-> m] :
          l \in {None} \cup {Some(v) : v \in LimitsValues},
          w \in {None, Some(FALSE)},
          p \in {None, Some(100)},
          q \in {None, Some(140)},
          m \in {None, Some([a \in Axes |-> MapCfg(100, 1, 2)])} }

Stores == {AbsentStore, UnreadableStore} \cup DocStores

\* The test of lines 118-119 on a parsed object whose servo_limits is an
\* object: the axis is missing, or its value is not a list, or not of length 2.
WrongShaped(limits, axis) ==
    \/ ~Has(limits[axis])
    \/ ~Val(limits[axis]).list
    \/ Len(Val(limits[axis]).items) # 2

\* The axes whose pair lines 117-120 replace in a parsed object whose
\* servo_limits is missing (the key loop has put the defaults there) or an
\* object.
WrongAxes(doc) ==
    {a \in Axes : Has(doc.servo_limits) /\ WrongShaped(Val(doc.servo_limits), a)}

\* data after the two loops of lines 113-120, with the pairs of the axes in
\* wrong replaced.
FilledConfig(doc, wrong) ==
    [k \in ConfigKeys |->
        IF k = "servo_limits"
        THEN [a \in Axes |->
                 IF ~Has(doc.servo_limits) \/ a \in wrong
                 THEN DEFAULT_CONFIG.servo_limits[a]
                 ELSE Val(Val(doc.servo_limits)[a]).items]
        ELSE IF Has(doc[k]) THEN Val(doc[k]) ELSE DEFAULT_CONFIG[k]]

load_device_config_AnyShape(store) ==
    IF store.kind = "absent"
    THEN [config |-> DEFAULT_CONFIG, store |-> DEFAULT_CONFIG]
    ELSE IF store.kind = "unreadable"
    THEN [config |-> DEFAULT_CONFIG, store |-> store]
    ELSE IF Has(store.servo_limits) /\ ~Val(store.servo_limits).dict
    THEN [config |-> DEFAULT_CONFIG, store |-> store]
    ELSE [config |-> FilledConfig(store, {a \in WrongAxes(store) :
                                              ~Has(Val(store.servo_limits)[a])}),
          store |-> store]

\* The loader returns the config and the store it leaves behind.  No file:
\* the defaults are saved and returned.  Anything raised inside the try block
\* is caught and the defaults are returned: the file does not open or parse,
\* or servo_limits is present and not an object (the membership test or the
\* item assignment of lines 118-120 raises TypeError).
load_device_config(store) ==
    IF store.kind = "absent"
    THEN [config |-> DEFAULT_CONFIG, store |-> DEFAULT_CONFIG]
    ELSE IF store.kind = "unreadable"
    THEN [config |-> DEFAULT_CONFIG, store |-> store]
    ELSE IF Has(store.servo_limits) /\ ~Val(store.servo_limits).dict
    THEN [config |-> DEFAULT_CONFIG, store |-> store]
    ELSE [config |-> FilledConfig(store, WrongAxes(store)), store |-> store]

\* Before line 136: the GPIO lines are open, the servos answered the first
\* set_angle_limits(75, 165) or did not (lines 67-75), the file is in any of
\* its states.
InitLoad ==
    /\ boot = "load"
    /\ track = FALSE
    /\ trip = NoTrip
    /\ CONFIG_FILE \in Stores
    /\ DEVICE_CONFIG = [kind |-> "unloaded"]
    /\ CAM_POWER = FALSE
    /\ attached \in BOOLEAN
    /\ servoAngle \in [Axes -> {100, 120}]
    /\ servoLimits = [a \in Axes |-> <<75, 165>>]
    /\ oled = "sleep"
    /\ InitIdle

\* DEVICE_CONFIG = load_device_config()
LoadConfig ==
    /\ boot = "load"
    /\ boot' = "loaded"
    /\ DEVICE_CONFIG' = load_device_config(CONFIG_FILE).config
    /\ CONFIG_FILE' = load_device_config(CONFIG_FILE).store
    /\ UNCHANGED <<pipeShared, locals, pc, req, hist, track, trip, attached, served,
                   servoAngle, servoLimits, SERVO_LOCK, frame, oledVars>>

\* The servos after the first n of the four bus calls of lines 140-148.
StartupLimits(n) ==
    [a \in Axes |-> IF (a = "pan" /\ n >= 1) \/ (a = "tilt" /\ n >= 2)
                    THEN DEVICE_CONFIG.servo_limits[a] ELSE servoLimits[a]]

StartupAngle(n) ==
    [a \in Axes |-> IF a = "pan" /\ n >= 3 THEN DEVICE_CONFIG.pan_init
                    ELSE IF a = "tilt" /\ n >= 4 THEN DEVICE_CONFIG.tilt_init
                    ELSE servoAngle[a]]

\* Lines 137-151: with servo proxies the loaded limits and init angles are
\* sent to the servos, and a ServoTimeoutError in any of the four calls ends
\* the start-up (nothing catches it); then the camera power line is written.
Startup ==
    /\ boot = "loaded"
    /\ \/ /\ boot' = "up"
          /\ servoLimits' = StartupLimits(IF attached THEN 4 ELSE 0)
          /\ servoAngle' = StartupAngle(IF attached THEN 4 ELSE 0)
          /\ CAM_POWER' = DEVICE_CONFIG.pwr_init
       \/ /\ attached
          /\ boot' = "crashed"
          /\ \E n \in 0..3 : /\ servoLimits' = StartupLimits(n)
                             /\ servoAngle' = StartupAngle(n)
          /\ CAM_POWER' = CAM_POWER
    /\ UNCHANGED <<PIPELINES, procs, HUB_POWER, locals, pc, req, hist, track, trip,
                   DEVICE_CONFIG, CONFIG_FILE, attached, served, SERVO_LOCK,
                   frame, oledVars>>

NextLoad == LoadConfig \/ Startup

SpecLoad == InitLoad /\ [][NextLoad]_vars

\* ------------------------------------------------------------------------
\* Properties of the pipeline manager and the power handler
\* ------------------------------------------------------------------------
IsStart(t) == req[t].kind = "stream" /\ req[t].on

IsStop(t) == req[t].kind = "stream" /\ ~req[t].on

IsPowerOff(t) == req[t].kind = "power" /\ ~req[t].on

StopPcs == {"stop_poll", "stop_wait", "stop_kill"}

\* The processes of the sessions a registry holds.
AllDead(reg) == \A i \in 1..Len(reg) : ~procs[reg[i].v].alive

\* C1: in every reachable state, whatever the interleaving of start and stop
\* requests, PIPELINES holds at most one protocol key.
C1_AtMostOneKey == Cardinality(Keys(PIPELINES)) <= 1

C3_StartIdempotent ==
    [][\A t \in Workers :
          (/\ pc[t] = "start_check"
           /\ req[t].protocol \in Keys(PIPELINES)
           /\ pc'[t] # pc[t])
          => /\ PIPELINES' = PIPELINES
             /\ procs' = procs
             /\ pc'[t] = "done"
             /\ hist'[t].out = "already_running"]_vars

C3_Witness ==
    \E t \in Workers :
        /\ pc[t] = "done"
        /\ hist[t].out = "already_running"
        /\ req[t].protocol \in Keys(PIPELINES)
        /\ procs[Lookup(PIPELINES, req[t].protocol)].alive

\* C4: a start request that fails validation, handled with no other request
\* running, leaves the registry as it was, signals no session's process and
\* spawns no process.
C4_RejectedStartMutatesNothing ==
    \A t \in Workers :
        (/\ pc[t] = "done"
         /\ hist[t].out = "value_error"
         /\ hist[t].alone)
        => /\ PIPELINES = hist[t].pre
           /\ \A i \in 1..Len(hist[t].pre) : ~procs[hist[t].pre[i].v].sigint
           /\ Len(procs) = hist[t].n

\* What a finished or running stop leaves of a session.  A process that was
\* sent the interrupt is out of the registry; once its _stop_pipeline call is
\* over it is not running; it is killed exactly when the 5 s wait expired and
\* never without having been interrupted first; and a stop request that ran
\* with no other request leaves its protocol out of the registry.
StopResolved ==
    /\ \A p \in 1..Len(procs) :
          LET stopping == \E t \in Workers : pc[t] \in StopPcs /\ cur[t] = p
          IN /\ procs[p].sigint => procs[p].popped /\ p \notin Values(PIPELINES)
             /\ procs[p].popped /\ ~stopping => ~procs[p].alive
             /\ procs[p].killed => procs[p].sigint /\ procs[p].expired
             /\ procs[p].expired /\ ~stopping => procs[p].killed
             /\ procs[p].expired => procs[p].sigint
    /\ \A t \in Workers :
          pc[t] = "done" /\ IsStop(t) /\ hist[t].alone
          => req[t].protocol \notin Keys(PIPELINES)

InStop(t) == pc[t] \in StopPcs \cup {"stop_pop"}

StopRank(l) ==
    IF l = "stop_pop" THEN 1
    ELSE IF l = "stop_poll" THEN 2
    ELSE IF l = "stop_wait" THEN 3
    ELSE IF l = "stop_kill" THEN 4
    ELSE 5

C9_OneProcessPerKey ==
    \A P \in Protocols :
        Cardinality({p \in 1..Len(procs) :
                        /\ procs[p].proto = P
                        /\ procs[p].alive
                        /\ ~procs[p].popped}) <= 1

\* The side effects of a power-off that went through the stop loop:
\* n stops, then the camera write, then the hub low and the hub high.
RECURSIVE Stops(_)
Stops(n) == IF n = 0 THEN <<>> ELSE <<"stop">> \o Stops(n - 1)

IsPowerOffLog(log) ==
    /\ Len(log) >= 3
    /\ log = Stops(Len(log) - 3) \o <<"cam", "hub_low", "hub_high">>

\* C10 as stated: every power request with on = false (run with no other
\* request) stops all streams, writes camera power off, then pulses the hub
\* low and high, in that order.
C10_PowerOffAlways ==
    \A t \in Workers :
        (pc[t] = "done" /\ IsPowerOff(t) /\ hist[t].alone)
        => /\ PIPELINES = <<>>
           /\ AllDead(hist[t].pre)
           /\ IsPowerOffLog(hist[t].log)

\* C10 amended: a power request with on = false that reads the camera power
\* as on stops every session it listed before it writes the camera power
\* off, and pulses the hub low then high after that write; when no other
\* request runs meanwhile, the registry is empty and the sessions' processes
\* are ended from the camera write on, and on return the camera is off and
\* the hub high.
C10_PowerOffWhenOn ==
    \A t \in Workers :
        /\ (pc[t] \in {"pw_hub_low", "pw_hub_high", "done"}
            /\ IsPowerOff(t) /\ prev_on[t] /\ hist[t].alone)
           => /\ PIPELINES = <<>>
              /\ AllDead(hist[t].pre)
              /\ ~CAM_POWER
              /\ Len(hist[t].log) >= Len(hist[t].pre) + 1
              /\ hist[t].log[Len(hist[t].pre) + 1] = "cam"
        /\ (pc[t] = "done" /\ IsPowerOff(t) /\ prev_on[t])
           => /\ IsPowerOffLog(hist[t].log)
              /\ hist[t].alone => HUB_POWER
        /\ (pc[t] = "done" /\ IsPowerOff(t) /\ ~prev_on[t])
           => hist[t].log = <<"cam">>

\* A power-off that had two sessions to stop.
C10_Witness ==
    \E t \in Workers :
        /\ pc[t] = "done"
        /\ IsPowerOff(t)
        /\ prev_on[t]
        /\ hist[t].alone
        /\ Len(hist[t].pre) = 2
        /\ \E i \in 1..2 : procs[hist[t].pre[i].v].sigint

\* ------------------------------------------------------------------------
\* Properties of the motion, limit and init/config handlers
\* ------------------------------------------------------------------------
IsMove(t) == req[t].kind = "motion" /\ req[t].method = "POST" /\ req[t].axis \in Axes

IsLimitUpdate(t) == req[t].kind = "limit" /\ req[t].method = "POST" /\ req[t].axis \in Axes

Within(lim, x) == lim[1] <= x /\ x <= lim[2]

\* C6: for every move request that commanded the servo (run with no other
\* request), the angle commanded and reported lies within the axis's current
\* limits; the outcome is "limited" exactly when the target computed before
\* clamping was outside the limits, and "ok" exactly when it was inside.
C6_MoveWithinLimits ==
    \A t \in Workers :
        (/\ pc[t] = "done"
         /\ IsMove(t)
         /\ hist[t].alone
         /\ hist[t].out \in {"ok", "limited"})
        => LET lim == DEVICE_CONFIG.servo_limits[req[t].axis]
               f == frame[t]
           IN /\ Within(lim, f.limited_angle)
              /\ f.physical_angle = f.limited_angle
              /\ servoAngle[req[t].axis] = f.limited_angle
              /\ hist[t].out = "limited" <=> ~Within(lim, f.servo_angle)
              /\ hist[t].out = "ok" <=> Within(lim, f.servo_angle)

\* C7: after a limit update handled under a calibration with direction +1 or
\* -1 (run with no other request), the limits stored for the axis, in memory
\* and in the config file, satisfy 0 <= min <= max <= 240, and the logical
\* bounds of the response, when there is one, satisfy min <= max.
C7_LimitsNormalized ==
    \A t \in Workers :
        (/\ pc[t] = "done"
         /\ IsLimitUpdate(t)
         /\ hist[t].alone
         /\ frame[t].direction \in {0 - 1, 1})
        => LET lim == DEVICE_CONFIG.servo_limits[req[t].axis]
           IN /\ 0 <= lim[1] /\ lim[1] <= lim[2] /\ lim[2] <= 240
              /\ CONFIG_FILE.servo_limits[req[t].axis] = lim
              /\ hist[t].out = "ok"
                 => /\ lim = <<frame[t].min_raw, frame[t].max_raw>>
                    /\ ~FracGT(frame[t].mapped[1], frame[t].mapped[2])

\* A limit update under direction +1 whose raw bounds came in the wrong
\* order and were stored swapped.
C7_Witness ==
    \E t \in Workers :
        /\ pc[t] = "done"
        /\ IsLimitUpdate(t)
        /\ hist[t].alone
        /\ hist[t].out = "ok"
        /\ frame[t].direction = 1
        /\ Has(req[t].min_raw) /\ Has(req[t].max_raw)
        /\ Val(req[t].min_raw) > Val(req[t].max_raw)
        /\ DEVICE_CONFIG.servo_limits[req[t].axis] = <<Val(req[t].max_raw), Val(req[t].min_raw)>>

\* C8: in no reachable state are two threads -- workers in motion,
\* motion_limit or system_init, or the display thread -- inside a servo bus
\* transaction at the same time.
C8_BusSerialized ==
    Cardinality({t \in Workers : OnBus(t)}) + (IF OledOnBus THEN 1 ELSE 0) <= 1

IsInitUpdate(t) == req[t].kind = "init" /\ req[t].method = "POST"

\* C11: after any limit-update or init/config-update request has ended (run
\* with no other request), with success or with an error, the config file
\* holds the in-memory config.
C11_PersistedEqualsMemory ==
    \A t \in Workers :
        (/\ pc[t] = "done"
         /\ IsLimitUpdate(t) \/ IsInitUpdate(t)
         /\ hist[t].alone)
        => CONFIG_FILE = DEVICE_CONFIG

\* Whether a move over the given distance in the given time stays within
\* 15 degrees per second.
WithinSpeedCap(duration_ms, from, to) == duration_ms * 15 >= Abs(from - to) * 1000

\* C12: every move commanded to a servo (by a request run with no other
\* request) respects the 15 deg/s cap: commanded_duration_ms * 15 >=
\* |current_physical - target_physical| * 1000, for the moves of motion, with
\* the computed and with the fallback duration, and for the init-angle moves.
C12_SpeedCap ==
    \A t \in Workers :
        hist[t].alone =>
           /\ pc[t] = "mo_move_bus"
              => WithinSpeedCap(frame[t].move_time, servoAngle[req[t].axis],
                                frame[t].limited_angle)
           /\ pc[t] = "si_pan_bus"
              => WithinSpeedCap(InitMoveTime, servoAngle["pan"], DEVICE_CONFIG.pan_init)
           /\ pc[t] = "si_tilt_bus"
              => WithinSpeedCap(InitMoveTime, servoAngle["tilt"], DEVICE_CONFIG.tilt_init)

IsAngleRead(t) == req[t].kind = "motion" /\ req[t].method = "GET" /\ req[t].axis \in Axes

\* C13: an angle read on an axis with a proxy (run with no other request)
\* ends with a success response and the servo lock released.  When the servo
\* read timed out the response carries the configured center as
\* physical_angle and the flag "communication_error"; when the read
\* succeeded it carries the servo's angle and, as the logical angle, the
\* inverse calibration mapping of it.
C13_AngleReadNeverFails ==
    \A t \in Workers :
        (/\ pc[t] = "done"
         /\ IsAngleRead(t)
         /\ attached
         /\ hist[t].alone)
        => LET m == DEVICE_CONFIG.servo_map[req[t].axis]
               f == frame[t]
           IN /\ SERVO_LOCK = {}
              /\ hist[t].out \in {"angle", "communication_error"}
              /\ hist[t].log = <<"read_timeout">>
                 => /\ hist[t].out = "communication_error"
                    /\ f.physical_angle = m.center
              /\ hist[t].log = <<"read_ok">>
                 => /\ hist[t].out = "angle"
                    /\ f.physical_angle = servoAngle[req[t].axis]
                    /\ m.direction * m.scale # 0
                    /\ f.mapped = <<Frac(f.physical_angle - m.center, m.direction * m.scale)>>

\* C14: no request ends with a servo timeout left unhandled: a timed-out
\* actuator write -- the move of motion, the set_angle_limits of motion_limit,
\* a move of system_init -- ends the request with the outcome
\* "servo_communication_failed", after which the worker is free again.
C14_WriteTimeoutHandled ==
    \A t \in Workers :
        /\ hist[t].out # "unhandled_timeout"
        /\ pc[t] = "done" => ENABLED Respond(t)

\* C15: a session whose process exited on its own does not count as
\* running: a start of its protocol is never answered as already running,
\* with nothing spawned, on the strength of an entry whose process has exited.
C15_ExitedSessionNotRunning ==
    [][\A t \in Workers :
          (/\ pc[t] = "start_check"
           /\ pc'[t] = "done"
           /\ hist'[t].out = "already_running")
          => procs[Lookup(PIPELINES, req[t].protocol)].alive]_vars

\* C16: stop(P) with P not in the registry is a no-op that succeeds: the pop
\* finds nothing and the return follows, and neither step changes the
\* registry or any process; a stop request ends as stopped.
C16_StopAbsentNoop ==
    [][\A t \in Workers :
          /\ (/\ pc[t] = "stop_pop"
              /\ proto[t] \notin Keys(PIPELINES)
              /\ pc'[t] # pc[t])
             => /\ PIPELINES' = PIPELINES
                /\ procs' = procs
                /\ cur'[t] = NoProc
                /\ pc'[t] = "stop_poll"
          /\ (/\ pc[t] = "stop_poll"
              /\ cur[t] = NoProc
              /\ pc'[t] # pc[t])
             => /\ PIPELINES' = PIPELINES
                /\ procs' = procs
                /\ pc'[t] \notin StopPcs
                /\ IsStop(t) => pc'[t] = "done" /\ hist'[t].out = "stopped"]_vars

\* A stop request for a protocol that is not in the registry has ended,
\* alone, and the session of another protocol is still recorded and running.
C16_Witness ==
    \E t \in Workers :
        /\ pc[t] = "done"
        /\ IsStop(t)
        /\ hist[t].alone
        /\ hist[t].out = "stopped"
        /\ \A p \in 1..Len(procs) : procs[p].proto # req[t].protocol
        /\ Len(PIPELINES) = 1
        /\ procs[PIPELINES[1].v].alive

\* ------------------------------------------------------------------------
\* Properties of the start-up
\* ------------------------------------------------------------------------
\* The config has every key of the defaults and a 2-element pair per axis.
WellFormedConfig(cfg) ==
    /\ DOMAIN cfg = ConfigKeys
    /\ \A a \in Axes : Len(cfg.servo_limits[a]) = 2

\* Top-level key k is missing from the store.
MissingKey(store, k) == store.kind = "doc" /\ ~Has(store[k])

\* The axis's limit pair is missing from the store's servo_limits object or is
\* not a 2-element list.
BadAxis(store, a) ==
    /\ store.kind = "doc"
    /\ Has(store.servo_limits)
    /\ Val(store.servo_limits).dict
    /\ WrongShaped(Val(store.servo_limits), a)

\* C17: whatever the store holds, the load completes; the config it returns
\* has every default key and a 2-element limit pair per axis, with the default
\* in the place of each missing key and each missing or wrong-shaped pair; an
\* absent store holds the defaults once the load has returned.
C17_LoadNeverPropagates ==
    [][boot = "load" =>
        /\ ENABLED LoadConfig
        /\ boot' = "loaded"
        /\ WellFormedConfig(DEVICE_CONFIG')
        /\ CONFIG_FILE.kind \in {"absent", "unreadable"} => DEVICE_CONFIG' = DEFAULT_CONFIG
        /\ \A k \in ConfigKeys :
              MissingKey(CONFIG_FILE, k) => DEVICE_CONFIG'[k] = DEFAULT_CONFIG[k]
        /\ \A a \in Axes :
              BadAxis(CONFIG_FILE, a) =>
                 DEVICE_CONFIG'.servo_limits[a] = DEFAULT_CONFIG.servo_limits[a]
        /\ IF CONFIG_FILE = AbsentStore
           THEN CONFIG_FILE' = DEFAULT_CONFIG
           ELSE CONFIG_FILE' = CONFIG_FILE]_vars

\* A file with one key missing, one pair of the wrong length and one pair well
\* formed was loaded: the key and the first pair hold the defaults, the second
\* pair and the other keys are the file's.
C17_Witness ==
    /\ boot = "loaded"
    /\ "kind" \in DOMAIN CONFIG_FILE
    /\ MissingKey(CONFIG_FILE, "pan_init")
    /\ BadAxis(CONFIG_FILE, "pan")
    /\ Has(Val(CONFIG_FILE.servo_limits).pan)
    /\ ~BadAxis(CONFIG_FILE, "tilt")
    /\ DEVICE_CONFIG.pan_init = DEFAULT_CONFIG.pan_init
    /\ DEVICE_CONFIG.servo_limits.pan = DEFAULT_CONFIG.servo_limits.pan
    /\ DEVICE_CONFIG.servo_limits.tilt = <<50, 200>>
    /\ DEVICE_CONFIG.tilt_init = 140

\* ------------------------------------------------------------------------
\* Properties of the calibration mapping
\* ------------------------------------------------------------------------
\* C18: for every calibration with direction -1 or 1 and scale > 0 and every
\* integer physical angle in [0, 240], mapped_to_physical(physical_to_mapped(x))
\* is x.
C18_RoundTrip == trip.stage = "back" => trip.back = trip.physical

\* ------------------------------------------------------------------------
\* Properties of the display thread
\* ------------------------------------------------------------------------
Hot(readout) == Has(readout.tmax) /\ Val(readout.tmax) >= 80

Cool(readout) == Has(readout.tmax) /\ Val(readout.tmax) < 80

\* C19: of two consecutive displayed images that both have a maximum
\* temperature of 80 C or more, exactly one shows the readout inverted; an
\* image with a maximum temperature below 80 C shows it non-inverted at the
\* fixed position, whatever the toggle is.
C19_OverheatBlink ==
    /\ Len(screen) = 2 /\ Hot(screen[1]) /\ Hot(screen[2])
          => screen[1].inverted # screen[2].inverted
    /\ \A i \in 1..Len(screen) :
          Cool(screen[i]) => ~screen[i].inverted /\ screen[i].at = "fixed"

\* Two hot images in a row were displayed, the first plain and the second
\* inverted.
C19_Witness ==
    /\ Len(screen) = 2
    /\ Hot(screen[1]) /\ ~screen[1].inverted
    /\ Hot(screen[2]) /\ screen[2].inverted
    /\ ~toggle

\* C20: stop(P) takes the entry of P out of the registry only once its
\* process has exited or has been killed: in no reachable state is P absent
\* from the registry while the process that was recorded for P, and that a
\* stop has removed, is still alive.
C20_RemovedOnlyWhenEnded ==
    \A p \in 1..Len(procs) :
        procs[p].popped /\ procs[p].alive => procs[p].proto \in Keys(PIPELINES)

\* A limit update that supplies only the min bound (raw or logical).
OnlyMin(r) == (Has(r.min_raw) \/ Has(r.min)) /\ ~Has(r.max_raw) /\ ~Has(r.max)

\* A limit update that supplies only the max bound (raw or logical).
OnlyMax(r) == (Has(r.max_raw) \/ Has(r.max)) /\ ~Has(r.min_raw) /\ ~Has(r.min)

\* C21: concurrent config writers lose no update: when two limit updates of
\* one axis, one supplying only the min bound and the other only the max
\* bound, have both ended, in whatever interleaving, the limits of the axis
\* in memory and in the config file hold the new min and the new max.
C21_NoLostUpdate ==
    \A t, u \in Workers :
        (/\ pc[t] = "done" /\ pc[u] = "done"
         /\ IsLimitUpdate(t) /\ IsLimitUpdate(u)
         /\ req[t].axis = req[u].axis
         /\ OnlyMin(req[t]) /\ Has(req[t].min_raw)
         /\ OnlyMax(req[u]) /\ Has(req[u].max_raw))
        => LET new == <<Val(req[t].min_raw), Val(req[u].max_raw)>>
           IN /\ DEVICE_CONFIG.servo_limits[req[t].axis] = new
              /\ CONFIG_FILE.servo_limits[req[t].axis] = new

\* C22: in every reachable state, after any sequence of init/config updates
\* and limit updates, each axis calibration of the device config has
\* scale > 0 and direction -1 or +1, so that the divisor of the angle reads
\* and limit reads is never zero.
C22_CalibrationValid ==
    \A a \in Axes :
        LET m == DEVICE_CONFIG.servo_map[a]
        IN /\ m.scale > 0
           /\ m.direction \in {0 - 1, 1}
           /\ ~DivisionRaises(m.direction, m.scale)

\* The positions of a limit update between picking up the request and its end.
LimitPcs == {"li_store", "li_save", "li_hw", "li_hw_bus"}

\* A limit update is being handled.
LimitInProgress == \E t \in Workers : pc[t] \in LimitPcs

\* C23: whenever no limit update is in progress, the limits in memory, the
\* limits in the config file and, with the servos attached, the limits
\* programmed into the servo agree for each axis; so a limit update whose
\* hardware write timed out -- the servo keeps the limits it had before the
\* request -- has left the limits in memory and on file as they were.
C23_LimitCopiesAgree ==
    ~LimitInProgress
    => \A a \in Axes :
          /\ CONFIG_FILE.servo_limits[a] = DEVICE_CONFIG.servo_limits[a]
          /\ attached => servoLimits[a] = DEVICE_CONFIG.servo_limits[a]

====
